---- MODULE Spec2Model ----
(***************************************************************************)
(* ocsql: an OpenCensus tracing wrapper around database/sql drivers.       *)
(*                                                                         *)
(* The repository holds two snapshots of the wrapper:                      *)
(*   "driver.go"  : src/driver.go, with the TraceOptions of                *)
(*                  src/unnamed/part_000 (no AllowRoot field);             *)
(*   "options.go" : src/options.go (TraceOptions with AllowRoot, lines     *)
(*                  1-103, and the driver that reads it, lines 105-828).   *)
(* The variable rev says which snapshot is running.  A behaviour is: Wrap  *)
(* a parent driver, Open a connection, then any sequence of calls on the   *)
(* connection and on the object (statement, result, rows, transaction) the *)
(* latest call returned.  Every action is one call of one handler, from    *)
(* entry to return, deferred functions included.                           *)
(***************************************************************************)
EXTENDS Naturals, Sequences, FiniteSets

VARIABLES rev, options, parentConn, conn, cur, txSpan, last, probe,
          drivers, regMu, callers

vars == <<rev, options, parentConn, conn, cur, txSpan, last, probe,
          drivers, regMu, callers>>

\* The variables of Register: the drivers registered with database/sql, the
\* holder of regMu (0 for nobody), and the calls of Register.
regVars == <<drivers, regMu, callers>>

Revs == {"driver.go", "options.go"}

-----------------------------------------------------------------------------
(* TraceOptions and Wrap *)

Flags == {"AllowRoot", "Transaction", "Ping", "RowsNext", "RowsClose",
          "RowsAffected", "LastInsertID", "Query", "QueryParams"}

\* The fields TraceOptions has in each snapshot: AllowRoot exists in
\* options.go only.  A field a snapshot lacks is never set and never read.
FlagsOf(r) == IF r = "driver.go" THEN Flags \ {"AllowRoot"} ELSE Flags

ZeroOptions == [f \in Flags |-> FALSE]

TraceAll(r) == [f \in Flags |-> f \in FlagsOf(r)]

TraceOptions(r) == {o \in [Flags -> BOOLEAN] : \A f \in Flags \ FlagsOf(r) : ~o[f]}

WithOptions(o) == [kind |-> "all", flag |-> "", val |-> FALSE, opts |-> o]

WithFlag(f, b) == [kind |-> "flag", flag |-> f, val |-> b, opts |-> ZeroOptions]

ApplyOption(option, o) ==
    IF option.kind = "all" THEN option.opts
    ELSE [o EXCEPT ![option.flag] = option.val]

RECURSIVE ApplyOptions(_, _)
ApplyOptions(opts, o) ==
    IF opts = <<>> THEN o
    ELSE ApplyOptions(Tail(opts), ApplyOption(Head(opts), o))

\* Variant of Wrap that returns the options as the setters left them.
Wrap_AsApplied(opts) == ApplyOptions(opts, ZeroOptions)

\* Wrap: the effective options of the ocDriver it returns.
Wrap(opts) ==
    LET o == ApplyOptions(opts, ZeroOptions)
    IN  IF o["QueryParams"] /\ ~o["Query"]
        THEN [o EXCEPT !["QueryParams"] = FALSE]
        ELSE o

-----------------------------------------------------------------------------
(* Errors and the status mapper *)

Nil == "nil"

\* Error values a parent driver may return, compared by identity as the
\* code's switch does.  ErrOther stands for any error that is none of the
\* sentinels.
Errs == {"Canceled", "DeadlineExceeded", "ErrNoRows", "ErrTxDone",
         "ErrConnDone", "EOF", "ErrOther"}

ErrSkip == "ErrSkip"

\* err.Error()
ErrorMessage(err) ==
    CASE err = "Canceled"         -> "context canceled"
      [] err = "DeadlineExceeded" -> "context deadline exceeded"
      [] err = "ErrNoRows"        -> "sql: no rows in result set"
      [] err = "ErrTxDone"        -> "sql: transaction has already been committed or rolled back"
      [] err = "ErrConnDone"      -> "sql: connection is already closed"
      [] err = "EOF"              -> "EOF"
      [] err = "ErrSkip"          -> "driver: skip fast-path; continue as if unimplemented"
      [] OTHER                    -> "other error"

SetStatus(code, msg) == [e |-> "SetStatus", code |-> code, msg |-> msg]

EndEvent == [e |-> "End", code |-> "", msg |-> ""]

\* A started span: its name, its parent ("root" when the context it was
\* started from carried no span), its attributes and the SetStatus and End
\* calls made on it, in order.
NewSpan(name, parent, attrs) ==
    [name |-> name, parent |-> parent, attrs |-> attrs, events |-> <<>>]

\* No span.
NoSpan == NewSpan("", "", {})

AddAttributes(span, attrs) == [span EXCEPT !.attrs = @ \cup attrs]

SpanSetStatus(span, code, msg) ==
    [span EXCEPT !.events = Append(@, SetStatus(code, msg))]

End(span) == [span EXCEPT !.events = Append(@, EndEvent)]

\* Variant of the mapping that does not know sql.ErrConnDone.
StatusCodeConnDoneUnknown(err) ==
    CASE err = Nil                -> "OK"
      [] err = "Canceled"         -> "Cancelled"
      [] err = "DeadlineExceeded" -> "DeadlineExceeded"
      [] err = "ErrNoRows"        -> "NotFound"
      [] err = "ErrTxDone"        -> "FailedPrecondition"
      [] OTHER                    -> "Unknown"

\* The status code setSpanStatus picks for err.
StatusCode(err) ==
    CASE err = Nil                -> "OK"
      [] err = "Canceled"         -> "Cancelled"
      [] err = "DeadlineExceeded" -> "DeadlineExceeded"
      [] err = "ErrNoRows"        -> "NotFound"
      [] err \in {"ErrTxDone", "ErrConnDone"} -> "FailedPrecondition"
      [] OTHER                    -> "Unknown"

setSpanStatus(span, err) ==
    IF err = Nil
    THEN SpanSetStatus(span, StatusCode(err), "")
    ELSE SpanSetStatus(span, StatusCode(err), ErrorMessage(err))

-----------------------------------------------------------------------------
(* Contexts *)

\* The contexts a caller passes: context.TODO(), context.Background() (any
\* context without a span), and a context that carries the caller's span.
InboundCtx == {"TODO", "Background", "Inbound"}

\* Contexts the wrapper derives: one carrying the span of the operation
\* ("Op"), one carrying the long-lived transaction span ("Tx").
\* trace.FromContext: the span a context carries, "none" for nil.
FromContext(ctx) ==
    CASE ctx = "Inbound" -> "inbound"
      [] ctx = "Op"      -> "op"
      [] ctx = "Tx"      -> "tx"
      [] OTHER           -> "none"

\* trace.StartSpan(ctx, name): the new span is a child of the span ctx
\* carries, a root span when it carries none.
StartSpan(ctx, name) ==
    NewSpan(name, IF FromContext(ctx) = "none" THEN "root" ELSE FromContext(ctx), {})

attrMissingContext == "ocsql.warning=missing upstream context"
attrDeprecated == "ocsql.warning=database driver uses deprecated features"
attrOcsqlDeprecated == "ocsql.deprecated"
attrQuery == "sql.query"
attrParams == "sql.arg"

-----------------------------------------------------------------------------
(* Objects: the parent's and the wrapper's *)

ConnCaps == {"Pinger", "Execer", "ExecerContext", "Queryer", "QueryerContext",
             "ConnPrepareContext", "ConnBeginTx"}

StmtCaps == {"StmtExecContext", "StmtQueryContext"}

RowsCaps == {"RowsColumnTypeScanType"}

\* The method that makes a type implement each optional interface.
IfaceMethod(i) ==
    CASE i = "Pinger"                 -> "Ping"
      [] i = "Execer"                 -> "Exec"
      [] i = "ExecerContext"          -> "ExecContext"
      [] i = "Queryer"                -> "Query"
      [] i = "QueryerContext"         -> "QueryContext"
      [] i = "ConnPrepareContext"     -> "PrepareContext"
      [] i = "ConnBeginTx"            -> "BeginTx"
      [] i = "StmtExecContext"        -> "ExecContext"
      [] i = "StmtQueryContext"       -> "QueryContext"
      [] i = "RowsColumnTypeScanType" -> "ColumnTypeScanType"
      [] OTHER                        -> ""

\* The method sets of the decorator types.
ocConnMethods == {"Ping", "Exec", "ExecContext", "Query", "QueryContext",
                  "Prepare", "Close", "Begin", "PrepareContext", "BeginTx"}

ocStmtMethods == {"Exec", "Close", "NumInput", "Query", "ExecContext", "QueryContext"}

ocRowsMethods == {"Columns", "Close", "Next"}

\* The optional interfaces of ifaces that a type with these methods satisfies.
Implemented(methods, ifaces) == {i \in ifaces : IfaceMethod(i) \in methods}

\* An object a caller holds.  wrapped: a decorator of this package (else the
\* parent's own object); parentCaps: the optional interfaces the parent
\* object implements; caps: those the object handed to the caller implements;
\* ctx, opts, query: the decorator's fields.
Obj(kind, wrapped, ctx, opts, parentCaps, caps, query) ==
    [kind |-> kind, wrapped |-> wrapped, ctx |-> ctx, options |-> opts,
     parentCaps |-> parentCaps, caps |-> caps, query |-> query]

NoObj == Obj("none", FALSE, "", ZeroOptions, {}, {}, "")

\* The parent's own object, handed to the caller as it is.
Raw(kind, caps) == Obj(kind, FALSE, "", ZeroOptions, caps, caps, "")

\* &ocConn{parent: c, options: d.options}
ocConn(parentCaps, opts) ==
    Obj("conn", TRUE, "", opts, parentCaps, Implemented(ocConnMethods, ConnCaps), "")

\* ocStmt{parent: stmt, query: query, options: options}, returned as it is.
ocStmt(parentCaps, query, opts) ==
    Obj("stmt", TRUE, "", opts, parentCaps, Implemented(ocStmtMethods, StmtCaps), query)

\* ocResult{parent: res, ctx: ctx, options: options}
ocResult(ctx, opts) == Obj("result", TRUE, ctx, opts, {}, {}, "")

\* ocRows{parent: rows, ctx: ctx, options: options}
ocRows(parentCaps, ctx, opts) ==
    Obj("rows", TRUE, ctx, opts, parentCaps, Implemented(ocRowsMethods, RowsCaps), "")

\* ocTx{parent: tx, ctx: ctx}: the options field is left at its zero value.
ocTx(ctx) == Obj("tx", TRUE, ctx, ZeroOptions, {}, {}, "")

\* wrapStmt: the struct that embeds exactly the interfaces the parent has.
wrapStmt(parentCaps, query, opts) ==
    LET s == ocStmt(parentCaps, query, opts)
        hasExeCtx == "StmtExecContext" \in parentCaps
        hasQryCtx == "StmtQueryContext" \in parentCaps
    IN  CASE ~hasExeCtx /\ ~hasQryCtx -> [s EXCEPT !.caps = {}]
          [] ~hasExeCtx /\ hasQryCtx  -> [s EXCEPT !.caps = {"StmtQueryContext"}]
          [] hasExeCtx /\ ~hasQryCtx  -> [s EXCEPT !.caps = {"StmtExecContext"}]
          [] hasExeCtx /\ hasQryCtx   ->
                 [s EXCEPT !.caps = {"StmtExecContext", "StmtQueryContext"}]

\* One call of a parent method: the method, the query and the context passed.
Call(op, query, ctx) == [op |-> op, query |-> query, ctx |-> ctx]

\* What one handler did: the error and object it returned, the spans it
\* started (as they are when it returns), the parent calls it made, whether
\* it panicked, the long-lived transaction span as it leaves it, and the
\* SetStatus/End calls it made on the caller's own span.
Ret(err, obj, spans, calls) ==
    [err |-> err, obj |-> obj, spans |-> spans, calls |-> calls,
     panic |-> FALSE, tx |-> NoSpan, inbound |-> <<>>]

Panic(spans) ==
    [err |-> Nil, obj |-> NoObj, spans |-> spans, calls |-> <<>>,
     panic |-> TRUE, tx |-> NoSpan, inbound |-> <<>>]

\* defer func() { setSpanStatus(span, err); span.End() }()
\* Variant of the deferred function that ends the span without a status.
Finish_NoStatus(span, err) == End(span)

Finish(span, err) == End(setSpanStatus(span, err))

\* The sql.query and parameter attributes a span gets under these options.
QueryAttrs(opts) ==
    IF opts["Query"]
    THEN {attrQuery} \cup (IF opts["QueryParams"] THEN {attrParams} ELSE {})
    ELSE {}

-----------------------------------------------------------------------------
(* Connection handlers of the options.go snapshot.  c: the ocConn; ctx: the
   caller's context; perr: the error the parent's method returns if it is
   called (Nil for none); pcaps: the optional interfaces of the object the
   parent returns. *)

HasParent(ctx) == FromContext(ctx) # "none"

\* Variant of Ping that does not look at AllowRoot.
opt_ocConn_Ping_AnyRoot(c, ctx, perr) ==
    LET traced == c.options["Ping"]
        ok     == "Pinger" \in c.parentCaps
        err    == IF ok THEN perr ELSE Nil
        span   == StartSpan(ctx, "sql:ping")
        done   == End(IF err # Nil
                      THEN SpanSetStatus(span, "Unavailable", ErrorMessage(err))
                      ELSE SpanSetStatus(span, "OK", ""))
    IN  Ret(err, NoObj,
            IF traced THEN <<done>> ELSE <<>>,
            IF ok THEN <<Call("Ping", "", IF traced THEN "Op" ELSE ctx)>> ELSE <<>>)

opt_ocConn_Ping(c, ctx, perr) ==
    LET traced == c.options["Ping"] /\ (c.options["AllowRoot"] \/ HasParent(ctx))
        ok     == "Pinger" \in c.parentCaps
        err    == IF ok THEN perr ELSE Nil
        span   == StartSpan(ctx, "sql:ping")
        done   == End(IF err # Nil
                      THEN SpanSetStatus(span, "Unavailable", ErrorMessage(err))
                      ELSE SpanSetStatus(span, "OK", ""))
    IN  Ret(err, NoObj,
            IF traced THEN <<done>> ELSE <<>>,
            IF ok THEN <<Call("Ping", "", IF traced THEN "Op" ELSE ctx)>> ELSE <<>>)

opt_ocConn_Exec(c, query, perr) ==
    IF "Execer" \in c.parentCaps
    THEN IF ~c.options["AllowRoot"]
         THEN Ret(perr, IF perr = Nil THEN Raw("result", {}) ELSE NoObj,
                  <<>>, <<Call("Exec", query, "")>>)
         ELSE LET span == AddAttributes(StartSpan("Background", "sql:exec"),
                              {attrDeprecated, attrOcsqlDeprecated}
                                  \cup QueryAttrs(c.options))
              IN  Ret(perr,
                      IF perr = Nil THEN ocResult("Op", c.options) ELSE NoObj,
                      <<Finish(span, perr)>>, <<Call("Exec", query, "")>>)
    ELSE Ret(ErrSkip, NoObj, <<>>, <<>>)

\* Variant of ExecContext that never starts a root span.
opt_ocConn_ExecContext_NoRoot(c, ctx, query, perr) ==
    IF "ExecerContext" \in c.parentCaps
    THEN IF ~HasParent(ctx)
         THEN Ret(perr, IF perr = Nil THEN Raw("result", {}) ELSE NoObj,
                  <<>>, <<Call("ExecContext", query, ctx)>>)
         ELSE LET span == AddAttributes(StartSpan(ctx, "sql:exec"),
                                        QueryAttrs(c.options))
              IN  Ret(perr,
                      IF perr = Nil THEN ocResult(ctx, c.options) ELSE NoObj,
                      <<Finish(span, perr)>>,
                      <<Call("ExecContext", query, ctx)>>)
    ELSE Ret(ErrSkip, NoObj, <<>>, <<>>)

opt_ocConn_ExecContext(c, ctx, query, perr) ==
    IF "ExecerContext" \in c.parentCaps
    THEN IF ~c.options["AllowRoot"] /\ ~HasParent(ctx)
         THEN Ret(perr, IF perr = Nil THEN Raw("result", {}) ELSE NoObj,
                  <<>>, <<Call("ExecContext", query, ctx)>>)
         ELSE LET ctx1 == IF ~HasParent(ctx) THEN "Op" ELSE ctx
                  span == AddAttributes(StartSpan(ctx, "sql:exec"),
                                        QueryAttrs(c.options))
              IN  Ret(perr,
                      IF perr = Nil THEN ocResult(ctx1, c.options) ELSE NoObj,
                      <<Finish(span, perr)>>,
                      <<Call("ExecContext", query, ctx1)>>)
    ELSE Ret(ErrSkip, NoObj, <<>>, <<>>)

opt_ocConn_Query(c, query, perr, pcaps) ==
    IF "Queryer" \in c.parentCaps
    THEN IF ~c.options["AllowRoot"]
         THEN Ret(perr, IF perr = Nil THEN Raw("rows", pcaps) ELSE NoObj,
                  <<>>, <<Call("Query", query, "")>>)
         ELSE LET span == AddAttributes(StartSpan("Background", "sql:query"),
                              {attrDeprecated, attrOcsqlDeprecated}
                                  \cup QueryAttrs(c.options))
              IN  Ret(perr,
                      IF perr = Nil THEN ocRows(pcaps, "Op", c.options) ELSE NoObj,
                      <<Finish(span, perr)>>, <<Call("Query", query, "")>>)
    ELSE Ret(ErrSkip, NoObj, <<>>, <<>>)

\* Variant of QueryContext whose rows capture the caller's context.
opt_ocConn_QueryContext_KeepCtx(c, ctx, query, perr, pcaps) ==
    IF "QueryerContext" \in c.parentCaps
    THEN IF ~c.options["AllowRoot"] /\ ~HasParent(ctx)
         THEN Ret(perr, IF perr = Nil THEN Raw("rows", pcaps) ELSE NoObj,
                  <<>>, <<Call("QueryContext", query, ctx)>>)
         ELSE LET span == AddAttributes(StartSpan(ctx, "sql:query"),
                                        QueryAttrs(c.options))
              IN  Ret(perr,
                      IF perr = Nil THEN ocRows(pcaps, ctx, c.options) ELSE NoObj,
                      <<Finish(span, perr)>>,
                      <<Call("QueryContext", query, ctx)>>)
    ELSE Ret(ErrSkip, NoObj, <<>>, <<>>)

opt_ocConn_QueryContext(c, ctx, query, perr, pcaps) ==
    IF "QueryerContext" \in c.parentCaps
    THEN IF ~c.options["AllowRoot"] /\ ~HasParent(ctx)
         THEN Ret(perr, IF perr = Nil THEN Raw("rows", pcaps) ELSE NoObj,
                  <<>>, <<Call("QueryContext", query, ctx)>>)
         ELSE LET ctx1 == IF ~HasParent(ctx) THEN "Op" ELSE ctx
                  span == AddAttributes(StartSpan(ctx, "sql:query"),
                                        QueryAttrs(c.options))
              IN  Ret(perr,
                      IF perr = Nil THEN ocRows(pcaps, ctx1, c.options) ELSE NoObj,
                      <<Finish(span, perr)>>,
                      <<Call("QueryContext", query, ctx1)>>)
    ELSE Ret(ErrSkip, NoObj, <<>>, <<>>)

opt_ocConn_Prepare(c, query, perr, pcaps) ==
    LET span == AddAttributes(StartSpan("Background", "sql:prepare"),
                    {attrMissingContext}
                        \cup (IF c.options["Query"] THEN {attrQuery} ELSE {}))
    IN  Ret(perr,
            IF perr = Nil THEN wrapStmt(pcaps, query, c.options) ELSE NoObj,
            IF c.options["AllowRoot"] THEN <<Finish(span, perr)>> ELSE <<>>,
            <<Call("Prepare", query, "")>>)

opt_ocConn_PrepareContext(c, ctx, query, perr, pcaps) ==
    LET traced  == c.options["AllowRoot"] \/ HasParent(ctx)
        ctx1    == IF traced THEN "Op" ELSE ctx
        hasPrep == "ConnPrepareContext" \in c.parentCaps
        span    == AddAttributes(StartSpan(ctx, "sql:prepare"),
                       (IF c.options["Query"] THEN {attrQuery} ELSE {})
                           \cup (IF hasPrep THEN {} ELSE {attrMissingContext}))
    IN  Ret(perr,
            IF perr = Nil THEN wrapStmt(pcaps, query, c.options) ELSE NoObj,
            IF traced THEN <<Finish(span, perr)>> ELSE <<>>,
            IF hasPrep THEN <<Call("PrepareContext", query, ctx1)>>
                       ELSE <<Call("Prepare", query, "")>>)

opt_ocConn_BeginTx(c, ctx, perr) ==
    LET hasBegin == "ConnBeginTx" \in c.parentCaps
    IN  IF ~c.options["AllowRoot"] /\ ~HasParent(ctx)
        THEN Ret(perr, IF perr = Nil THEN Raw("tx", {}) ELSE NoObj, <<>>,
                 IF hasBegin THEN <<Call("BeginTx", "", ctx)>>
                             ELSE <<Call("Begin", "", "")>>)
        ELSE LET ctx1 == IF ctx = "TODO" THEN "Background" ELSE ctx
                 span == AddAttributes(StartSpan(ctx1, "sql:begin_transaction"),
                             (IF ctx = "TODO" THEN {attrMissingContext} ELSE {})
                                 \cup (IF hasBegin THEN {}
                                       ELSE {attrDeprecated, attrOcsqlDeprecated}))
             IN  Ret(perr,
                     IF perr = Nil THEN ocTx(ctx1) ELSE NoObj,
                     <<End(setSpanStatus(span, perr))>>,
                     IF hasBegin THEN <<Call("BeginTx", "", ctx1)>>
                                 ELSE <<Call("Begin", "", "")>>)

opt_ocConn_Begin(c, perr) == opt_ocConn_BeginTx(c, "TODO", perr)

-----------------------------------------------------------------------------
(* Statement, result, rows and transaction handlers of options.go *)

\* Variant of ocStmt.Exec that traces whatever AllowRoot is.
opt_ocStmt_Exec_AlwaysRoot(s, perr) ==
    LET span == AddAttributes(StartSpan("Background", "sql:exec"),
                    {attrDeprecated, attrOcsqlDeprecated}
                        \cup QueryAttrs(s.options))
    IN  Ret(perr,
            IF perr = Nil THEN ocResult("Op", s.options) ELSE NoObj,
            <<Finish(span, perr)>>, <<Call("Stmt.Exec", s.query, "")>>)

opt_ocStmt_Exec(s, perr) ==
    IF ~s.options["AllowRoot"]
    THEN Ret(perr, IF perr = Nil THEN Raw("result", {}) ELSE NoObj,
             <<>>, <<Call("Stmt.Exec", s.query, "")>>)
    ELSE LET span == AddAttributes(StartSpan("Background", "sql:exec"),
                         {attrDeprecated, attrOcsqlDeprecated}
                             \cup QueryAttrs(s.options))
         IN  Ret(perr,
                 IF perr = Nil THEN ocResult("Op", s.options) ELSE NoObj,
                 <<Finish(span, perr)>>, <<Call("Stmt.Exec", s.query, "")>>)

opt_ocStmt_Query(s, perr, pcaps) ==
    IF ~s.options["AllowRoot"]
    THEN Ret(perr, IF perr = Nil THEN Raw("rows", pcaps) ELSE NoObj,
             <<>>, <<Call("Stmt.Query", s.query, "")>>)
    ELSE LET span == AddAttributes(StartSpan("Background", "sql:query"),
                         {attrDeprecated, attrOcsqlDeprecated}
                             \cup QueryAttrs(s.options))
         IN  Ret(perr,
                 IF perr = Nil THEN ocRows(pcaps, "Op", s.options) ELSE NoObj,
                 <<Finish(span, perr)>>, <<Call("Stmt.Query", s.query, "")>>)

\* s.parent.(driver.StmtExecContext) panics when the parent lacks the
\* interface; a deferred function still runs, with err still nil.
opt_ocStmt_ExecContext(s, ctx, perr) ==
    LET has == "StmtExecContext" \in s.parentCaps
    IN  IF ~s.options["AllowRoot"] /\ ~HasParent(ctx)
        THEN IF has
             THEN Ret(perr, IF perr = Nil THEN Raw("result", {}) ELSE NoObj,
                      <<>>, <<Call("Stmt.ExecContext", s.query, ctx)>>)
             ELSE Panic(<<>>)
        ELSE LET ctx1 == IF ~HasParent(ctx) THEN "Op" ELSE ctx
                 span == AddAttributes(StartSpan(ctx, "sql:exec"),
                                       QueryAttrs(s.options))
             IN  IF has
                 THEN Ret(perr,
                          IF perr = Nil THEN ocResult(ctx1, s.options) ELSE NoObj,
                          <<Finish(span, perr)>>,
                          <<Call("Stmt.ExecContext", s.query, ctx1)>>)
                 ELSE Panic(<<Finish(span, Nil)>>)

opt_ocStmt_QueryContext(s, ctx, perr, pcaps) ==
    LET has == "StmtQueryContext" \in s.parentCaps
    IN  IF ~s.options["AllowRoot"] /\ ~HasParent(ctx)
        THEN IF has
             THEN Ret(perr, IF perr = Nil THEN Raw("rows", pcaps) ELSE NoObj,
                      <<>>, <<Call("Stmt.QueryContext", s.query, ctx)>>)
             ELSE Panic(<<>>)
        ELSE LET ctx1 == IF ~HasParent(ctx) THEN "Op" ELSE ctx
                 span == AddAttributes(StartSpan(ctx, "sql:query"),
                                       QueryAttrs(s.options))
             IN  IF has
                 THEN Ret(perr,
                          IF perr = Nil THEN ocRows(pcaps, ctx1, s.options) ELSE NoObj,
                          <<Finish(span, perr)>>,
                          <<Call("Stmt.QueryContext", s.query, ctx1)>>)
                 ELSE Panic(<<Finish(span, Nil)>>)

\* ocResult and ocRows: the same code in both snapshots.
\* Variant of LastInsertId that reads the RowsAffected flag.
ocResult_LastInsertId_WrongFlag(r, perr) ==
    Ret(perr, NoObj,
        IF r.options["RowsAffected"]
        THEN <<Finish(StartSpan(r.ctx, "sql:last_insert_id"), perr)>> ELSE <<>>,
        <<Call("LastInsertId", "", "")>>)

ocResult_LastInsertId(r, perr) ==
    Ret(perr, NoObj,
        IF r.options["LastInsertID"]
        THEN <<Finish(StartSpan(r.ctx, "sql:last_insert_id"), perr)>> ELSE <<>>,
        <<Call("LastInsertId", "", "")>>)

ocResult_RowsAffected(r, perr) ==
    Ret(perr, NoObj,
        IF r.options["RowsAffected"]
        THEN <<Finish(StartSpan(r.ctx, "sql:rows_affected"), perr)>> ELSE <<>>,
        <<Call("RowsAffected", "", "")>>)

ocRows_Close(r, perr) ==
    Ret(perr, NoObj,
        IF r.options["RowsClose"]
        THEN <<Finish(StartSpan(r.ctx, "sql:rows_close"), perr)>> ELSE <<>>,
        <<Call("Rows.Close", "", "")>>)

\* Variant of Rows.Next that records io.EOF like any other error.
ocRows_Next_EOFIsError(r, perr) ==
    Ret(perr, NoObj,
        IF r.options["RowsNext"]
        THEN <<Finish(StartSpan(r.ctx, "sql:rows_next"), perr)>>
        ELSE <<>>,
        <<Call("Rows.Next", "", "")>>)

\* Variant of Rows.Next that swallows io.EOF.
ocRows_Next_HideEOF(r, perr) ==
    Ret(IF perr = "EOF" THEN Nil ELSE perr, NoObj,
        IF r.options["RowsNext"]
        THEN <<Finish(StartSpan(r.ctx, "sql:rows_next"),
                      IF perr = "EOF" THEN Nil ELSE perr)>>
        ELSE <<>>,
        <<Call("Rows.Next", "", "")>>)

ocRows_Next(r, perr) ==
    Ret(perr, NoObj,
        IF r.options["RowsNext"]
        THEN <<Finish(StartSpan(r.ctx, "sql:rows_next"),
                      IF perr = "EOF" THEN Nil ELSE perr)>>
        ELSE <<>>,
        <<Call("Rows.Next", "", "")>>)

\* Variant of Commit that calls the parent again after an error.
opt_ocTx_Commit_Retry(t, perr) ==
    Ret(perr, NoObj, <<Finish(StartSpan(t.ctx, "sql:commit"), perr)>>,
        IF perr = Nil THEN <<Call("Commit", "", "")>>
        ELSE <<Call("Commit", "", ""), Call("Commit", "", "")>>)

opt_ocTx_Commit(t, perr) ==
    Ret(perr, NoObj, <<Finish(StartSpan(t.ctx, "sql:commit"), perr)>>,
        <<Call("Commit", "", "")>>)

opt_ocTx_Rollback(t, perr) ==
    Ret(perr, NoObj, <<Finish(StartSpan(t.ctx, "sql:rollback"), perr)>>,
        <<Call("Rollback", "", "")>>)

-----------------------------------------------------------------------------
(* Handlers of the driver.go snapshot.  tspan: the long-lived
   "sql:transaction" span of the transaction at hand (NoSpan for none). *)

drv_ocConn_Ping(c, ctx, perr) ==
    LET traced == c.options["Ping"]
        ok     == "Pinger" \in c.parentCaps
        err    == IF ok THEN perr ELSE Nil
        span   == StartSpan(ctx, "sql:ping")
        done   == End(IF err # Nil
                      THEN SpanSetStatus(span, "Unavailable", ErrorMessage(err))
                      ELSE SpanSetStatus(span, "OK", ""))
    IN  Ret(err, NoObj,
            IF traced THEN <<done>> ELSE <<>>,
            IF ok THEN <<Call("Ping", "", IF traced THEN "Op" ELSE ctx)>> ELSE <<>>)

drv_ocConn_Exec(c, query, perr) ==
    IF "Execer" \in c.parentCaps
    THEN LET span == AddAttributes(StartSpan("Background", "sql:exec"),
                                   {attrDeprecated, attrOcsqlDeprecated})
         IN  Ret(perr,
                 IF perr = Nil THEN ocResult("Op", c.options) ELSE NoObj,
                 <<Finish(span, perr)>>, <<Call("Exec", query, "")>>)
    ELSE Ret(ErrSkip, NoObj, <<>>, <<>>)

drv_ocConn_ExecContext(c, ctx, query, perr) ==
    IF "ExecerContext" \in c.parentCaps
    THEN Ret(perr,
             IF perr = Nil THEN ocResult("Op", c.options) ELSE NoObj,
             <<Finish(StartSpan(ctx, "sql:exec"), perr)>>,
             <<Call("ExecContext", query, "Op")>>)
    ELSE Ret(ErrSkip, NoObj, <<>>, <<>>)

drv_ocConn_Query(c, query, perr, pcaps) ==
    IF "Queryer" \in c.parentCaps
    THEN LET span == AddAttributes(StartSpan("Background", "sql:query"),
                                   {attrDeprecated, attrOcsqlDeprecated})
         IN  Ret(perr,
                 IF perr = Nil THEN ocRows(pcaps, "Op", c.options) ELSE NoObj,
                 <<Finish(span, perr)>>, <<Call("Query", query, "")>>)
    ELSE Ret(ErrSkip, NoObj, <<>>, <<>>)

drv_ocConn_QueryContext(c, ctx, query, perr, pcaps) ==
    IF "QueryerContext" \in c.parentCaps
    THEN Ret(perr,
             IF perr = Nil THEN ocRows(pcaps, "Op", c.options) ELSE NoObj,
             <<Finish(StartSpan(ctx, "sql:query"), perr)>>,
             <<Call("QueryContext", query, "Op")>>)
    ELSE Ret(ErrSkip, NoObj, <<>>, <<>>)

drv_ocConn_Prepare(c, query, perr, pcaps) ==
    Ret(perr,
        IF perr = Nil THEN wrapStmt(pcaps, query, c.options) ELSE NoObj,
        <<Finish(StartSpan("Background", "sql:prepare"), perr)>>,
        <<Call("Prepare", query, "")>>)

\* Returns the ocStmt itself, not wrapStmt's struct.
drv_ocConn_PrepareContext(c, ctx, query, perr, pcaps) ==
    LET hasPrep == "ConnPrepareContext" \in c.parentCaps
        span    == AddAttributes(StartSpan(ctx, "sql:prepare"),
                       IF hasPrep THEN {} ELSE {attrMissingContext})
    IN  Ret(perr,
            IF perr = Nil THEN ocStmt(pcaps, query, c.options) ELSE NoObj,
            <<Finish(span, perr)>>,
            IF hasPrep THEN <<Call("PrepareContext", query, ctx)>>
                       ELSE <<Call("Prepare", query, "")>>)

drv_ocConn_BeginTx(c, ctx, perr) ==
    LET trans    == c.options["Transaction"]
        hasBegin == "ConnBeginTx" \in c.parentCaps
        tspan    == IF ctx = "TODO"
                    THEN AddAttributes(StartSpan("Background", "sql:transaction"),
                                       {attrMissingContext})
                    ELSE StartSpan(ctx, "sql:transaction")
        ctx1     == IF trans THEN "Tx" ELSE ctx
        ctx2     == IF ctx1 = "TODO" THEN "Background" ELSE ctx1
        span     == AddAttributes(StartSpan(ctx2, "sql:begin_transaction"),
                        (IF ctx1 = "TODO" THEN {attrMissingContext} ELSE {})
                            \cup (IF hasBegin THEN {}
                                  ELSE {attrDeprecated, attrOcsqlDeprecated}))
        done     == End(setSpanStatus(span, perr))
    IN  [Ret(perr,
             IF perr = Nil THEN ocTx(ctx2) ELSE NoObj,
             IF trans THEN <<tspan, done>> ELSE <<done>>,
             IF hasBegin THEN <<Call("BeginTx", "", ctx2)>>
                         ELSE <<Call("Begin", "", "")>>)
         EXCEPT !.tx = IF trans THEN tspan ELSE NoSpan]

drv_ocConn_Begin(c, perr) == drv_ocConn_BeginTx(c, "TODO", perr)

\* The deferred function of Commit that closes the span t.ctx carries.
drv_CommitTxEvents(err) ==
    <<SetStatus("OK", ""),
      SetStatus(StatusCode(err), IF err = Nil THEN "" ELSE ErrorMessage(err)),
      EndEvent>>

\* The deferred function of Rollback that closes the span t.ctx carries.
drv_RollbackTxEvents(err) ==
    <<IF err = Nil THEN SetStatus("Aborted", "transaction rollback")
      ELSE SetStatus(StatusCode(err), ErrorMessage(err)),
      EndEvent>>

\* The two deferred functions of Commit and Rollback: the one that closes
\* the span carried by t.ctx runs only if t.options.Transaction is set.
drv_ocTx_finish(t, tspan, perr, name, op, events) ==
    LET carried == FromContext(t.ctx)
        closes  == t.options["Transaction"] /\ carried # "none"
    IN  [Ret(perr, NoObj, <<Finish(StartSpan(t.ctx, name), perr)>>,
             <<Call(op, "", "")>>)
         EXCEPT !.tx = IF closes /\ carried = "tx"
                       THEN [tspan EXCEPT !.events = @ \o events]
                       ELSE tspan,
                !.inbound = IF closes /\ carried = "inbound"
                            THEN events ELSE <<>>]

drv_ocTx_Commit(t, tspan, perr) ==
    drv_ocTx_finish(t, tspan, perr, "sql:commit", "Commit", drv_CommitTxEvents(perr))

drv_ocTx_Rollback(t, tspan, perr) ==
    drv_ocTx_finish(t, tspan, perr, "sql:rollback", "Rollback",
                    drv_RollbackTxEvents(perr))

\* The statement handlers of driver.go return the parent's result and rows
\* as they are.
drv_ocStmt_Exec(s, perr) ==
    Ret(perr, IF perr = Nil THEN Raw("result", {}) ELSE NoObj,
        <<Finish(AddAttributes(StartSpan("Background", "sql:exec"),
                               {attrDeprecated, attrOcsqlDeprecated}), perr)>>,
        <<Call("Stmt.Exec", s.query, "")>>)

drv_ocStmt_Query(s, perr, pcaps) ==
    Ret(perr, IF perr = Nil THEN Raw("rows", pcaps) ELSE NoObj,
        <<Finish(AddAttributes(StartSpan("Background", "sql:query"),
                               {attrDeprecated, attrOcsqlDeprecated}), perr)>>,
        <<Call("Stmt.Query", s.query, "")>>)

drv_ocStmt_ExecContext(s, ctx, perr) ==
    IF "StmtExecContext" \in s.parentCaps
    THEN Ret(perr, IF perr = Nil THEN Raw("result", {}) ELSE NoObj,
             <<Finish(StartSpan(ctx, "sql:exec"), perr)>>,
             <<Call("Stmt.ExecContext", s.query, "Op")>>)
    ELSE Panic(<<Finish(StartSpan(ctx, "sql:exec"), Nil)>>)

drv_ocStmt_QueryContext(s, ctx, perr, pcaps) ==
    IF "StmtQueryContext" \in s.parentCaps
    THEN Ret(perr, IF perr = Nil THEN Raw("rows", pcaps) ELSE NoObj,
             <<Finish(StartSpan(ctx, "sql:query"), perr)>>,
             <<Call("Stmt.QueryContext", s.query, "Op")>>)
    ELSE Panic(<<Finish(StartSpan(ctx, "sql:query"), Nil)>>)

-----------------------------------------------------------------------------
(* The state machine.

   rev        the snapshot running
   options    the effective TraceOptions of the ocDriver Wrap returned
   parentConn the optional interfaces of the connection the parent driver
              opens
   conn       the connection Open returned (NoObj before Open, after Close)
   cur        the object the caller holds (a statement, result, rows or
              transaction; NoObj for none).  The caller holds one such
              object at a time: it calls the connection while it holds
              none, and lets go of the object when it closes the
              connection.  The handlers keep no state between calls, so
              what a call does depends on its receiver and inputs alone.
   txSpan     the long-lived "sql:transaction" span of the latest BeginTx
   last       the latest call: the handler, its receiver and inputs, and
              what it did (Ret).
   probe      the inputs given to a pure function and what it made of them
              (the specifications that exercise one function alone)
   drivers, regMu, callers
              the state Register works on (the specification of Register) *)

Queries == {"SELECT 1"}

\* The parent connection types explored: one with no optional interface
\* and one with all of them (each handler probes one interface, so each
\* probe is seen to succeed and to fail).
ParentConnTypes == {{}, ConnCaps}

\* The outcomes of a parent call explored: success, a sentinel the status
\* mapper knows, and io.EOF, which is the end of the sequence for Rows.Next
\* and an error the status mapper does not know.
PErrs == {Nil, "Canceled", "EOF"}

\* The contexts passed to the handlers that only ask a context for its
\* span; BeginTx, which also compares it with context.TODO(), gets all of
\* InboundCtx.
CallCtx == {"Background", "Inbound"}

NoCall == [op |-> "", on |-> NoObj, ctx |-> "", query |-> "", perr |-> "n/a",
           ret |-> Ret(Nil, NoObj, <<>>, <<>>)]

Done(op, on, ctx, query, perr, ret) ==
    [op |-> op, on |-> on, ctx |-> ctx, query |-> query,
     perr |-> IF ret.calls = <<>> THEN "n/a" ELSE perr, ret |-> ret]

NoProbe == [in |-> <<>>, span |-> NoSpan]

Init ==
    /\ rev \in Revs
    /\ options \in {Wrap(<<WithOptions(o)>>) : o \in TraceOptions(rev)}
    /\ parentConn \in ParentConnTypes
    /\ conn = NoObj
    /\ cur = NoObj
    /\ txSpan = NoSpan
    /\ last = NoCall
    /\ probe = NoProbe
    /\ drivers = {}
    /\ regMu = 0
    /\ callers = <<>>

\* ocDriver.Open
Open ==
    /\ conn.kind = "none"
    /\ \E perr \in PErrs :
         LET c == IF perr = Nil THEN ocConn(parentConn, options) ELSE NoObj
         IN  /\ conn' = c
             /\ last' = Done("Open", NoObj, "", "", perr,
                             Ret(perr, c, <<>>, <<Call("Open", "", "")>>))
    /\ cur' = NoObj
    /\ UNCHANGED <<rev, regVars, options, parentConn, txSpan, probe>>

\* ocConn.Close
Close ==
    /\ conn.kind = "conn"
    /\ \E perr \in PErrs :
         last' = Done("Close", conn, "", "", perr,
                      Ret(perr, NoObj, <<>>, <<Call("Close", "", "")>>))
    /\ conn' = NoObj
    /\ cur' = NoObj
    /\ UNCHANGED <<rev, regVars, options, parentConn, txSpan, probe>>

\* A call on the connection: the caller keeps the object it returns.
ConnCall(op, ctx, query, perr, ret) ==
    /\ cur.kind = "none"
    /\ last' = Done(op, conn, ctx, query, perr, ret)
    /\ cur' = ret.obj
    /\ UNCHANGED <<rev, regVars, options, parentConn, conn, probe>>

Ping ==
    /\ conn.kind = "conn"
    /\ \E ctx \in CallCtx, perr \in PErrs :
         ConnCall("Ping", ctx, "", perr,
                  IF rev = "driver.go" THEN drv_ocConn_Ping(conn, ctx, perr)
                  ELSE opt_ocConn_Ping(conn, ctx, perr))
    /\ UNCHANGED txSpan

Exec ==
    /\ conn.kind = "conn"
    /\ \E query \in Queries, perr \in PErrs :
         ConnCall("Exec", "", query, perr,
                  IF rev = "driver.go" THEN drv_ocConn_Exec(conn, query, perr)
                  ELSE opt_ocConn_Exec(conn, query, perr))
    /\ UNCHANGED txSpan

ExecContext ==
    /\ conn.kind = "conn"
    /\ \E ctx \in CallCtx, query \in Queries, perr \in PErrs :
         ConnCall("ExecContext", ctx, query, perr,
                  IF rev = "driver.go"
                  THEN drv_ocConn_ExecContext(conn, ctx, query, perr)
                  ELSE opt_ocConn_ExecContext(conn, ctx, query, perr))
    /\ UNCHANGED txSpan

Query ==
    /\ conn.kind = "conn"
    /\ \E query \in Queries, perr \in PErrs, pcaps \in SUBSET RowsCaps :
         ConnCall("Query", "", query, perr,
                  IF rev = "driver.go"
                  THEN drv_ocConn_Query(conn, query, perr, pcaps)
                  ELSE opt_ocConn_Query(conn, query, perr, pcaps))
    /\ UNCHANGED txSpan

QueryContext ==
    /\ conn.kind = "conn"
    /\ \E ctx \in CallCtx, query \in Queries, perr \in PErrs,
          pcaps \in SUBSET RowsCaps :
         ConnCall("QueryContext", ctx, query, perr,
                  IF rev = "driver.go"
                  THEN drv_ocConn_QueryContext(conn, ctx, query, perr, pcaps)
                  ELSE opt_ocConn_QueryContext(conn, ctx, query, perr, pcaps))
    /\ UNCHANGED txSpan

Prepare ==
    /\ conn.kind = "conn"
    /\ \E query \in Queries, perr \in PErrs, pcaps \in SUBSET StmtCaps :
         ConnCall("Prepare", "", query, perr,
                  IF rev = "driver.go"
                  THEN drv_ocConn_Prepare(conn, query, perr, pcaps)
                  ELSE opt_ocConn_Prepare(conn, query, perr, pcaps))
    /\ UNCHANGED txSpan

PrepareContext ==
    /\ conn.kind = "conn"
    /\ \E ctx \in CallCtx, query \in Queries, perr \in PErrs,
          pcaps \in SUBSET StmtCaps :
         ConnCall("PrepareContext", ctx, query, perr,
                  IF rev = "driver.go"
                  THEN drv_ocConn_PrepareContext(conn, ctx, query, perr, pcaps)
                  ELSE opt_ocConn_PrepareContext(conn, ctx, query, perr, pcaps))
    /\ UNCHANGED txSpan

Begin ==
    /\ conn.kind = "conn"
    /\ \E perr \in PErrs :
         LET ret == IF rev = "driver.go" THEN drv_ocConn_Begin(conn, perr)
                    ELSE opt_ocConn_Begin(conn, perr)
         IN  /\ ConnCall("Begin", "", "", perr, ret)
             /\ txSpan' = ret.tx

BeginTx ==
    /\ conn.kind = "conn"
    /\ \E ctx \in InboundCtx, perr \in PErrs :
         LET ret == IF rev = "driver.go" THEN drv_ocConn_BeginTx(conn, ctx, perr)
                    ELSE opt_ocConn_BeginTx(conn, ctx, perr)
         IN  /\ ConnCall("BeginTx", ctx, "", perr, ret)
             /\ txSpan' = ret.tx

\* A call on the object the caller holds; it keeps the object the call
\* returns, if any, in its place.
ObjCall(op, ctx, perr, ret) ==
    /\ last' = Done(op, cur, ctx, "", perr, ret)
    /\ cur' = IF ret.obj.kind # "none" THEN ret.obj ELSE cur
    /\ UNCHANGED <<rev, regVars, options, parentConn, conn, probe>>

\* A call on an object of the parent that the wrapper handed out as it is.
Direct(op, perr) == Ret(perr, NoObj, <<>>, <<Call(op, "", "")>>)

StmtExec ==
    /\ cur.kind = "stmt"
    /\ \E perr \in PErrs :
         ObjCall("Stmt.Exec", "", perr,
                 IF rev = "driver.go" THEN drv_ocStmt_Exec(cur, perr)
                 ELSE opt_ocStmt_Exec(cur, perr))
    /\ UNCHANGED txSpan

StmtQuery ==
    /\ cur.kind = "stmt"
    /\ \E perr \in PErrs, pcaps \in SUBSET RowsCaps :
         ObjCall("Stmt.Query", "", perr,
                 IF rev = "driver.go" THEN drv_ocStmt_Query(cur, perr, pcaps)
                 ELSE opt_ocStmt_Query(cur, perr, pcaps))
    /\ UNCHANGED txSpan

\* The caller can call ExecContext only on a statement whose type has it.
StmtExecContext ==
    /\ cur.kind = "stmt"
    /\ "StmtExecContext" \in cur.caps
    /\ \E ctx \in CallCtx, perr \in PErrs :
         ObjCall("Stmt.ExecContext", ctx, perr,
                 IF rev = "driver.go" THEN drv_ocStmt_ExecContext(cur, ctx, perr)
                 ELSE opt_ocStmt_ExecContext(cur, ctx, perr))
    /\ UNCHANGED txSpan

StmtQueryContext ==
    /\ cur.kind = "stmt"
    /\ "StmtQueryContext" \in cur.caps
    /\ \E ctx \in CallCtx, perr \in PErrs, pcaps \in SUBSET RowsCaps :
         ObjCall("Stmt.QueryContext", ctx, perr,
                 IF rev = "driver.go"
                 THEN drv_ocStmt_QueryContext(cur, ctx, perr, pcaps)
                 ELSE opt_ocStmt_QueryContext(cur, ctx, perr, pcaps))
    /\ UNCHANGED txSpan

LastInsertId ==
    /\ cur.kind = "result"
    /\ \E perr \in PErrs :
         ObjCall("LastInsertId", "", perr,
                 IF cur.wrapped THEN ocResult_LastInsertId(cur, perr)
                 ELSE Direct("LastInsertId", perr))
    /\ UNCHANGED txSpan

RowsAffected ==
    /\ cur.kind = "result"
    /\ \E perr \in PErrs :
         ObjCall("RowsAffected", "", perr,
                 IF cur.wrapped THEN ocResult_RowsAffected(cur, perr)
                 ELSE Direct("RowsAffected", perr))
    /\ UNCHANGED txSpan

RowsNext ==
    /\ cur.kind = "rows"
    /\ \E perr \in PErrs :
         ObjCall("Rows.Next", "", perr,
                 IF cur.wrapped THEN ocRows_Next(cur, perr)
                 ELSE Direct("Rows.Next", perr))
    /\ UNCHANGED txSpan

RowsClose ==
    /\ cur.kind = "rows"
    /\ \E perr \in PErrs :
         ObjCall("Rows.Close", "", perr,
                 IF cur.wrapped THEN ocRows_Close(cur, perr)
                 ELSE Direct("Rows.Close", perr))
    /\ UNCHANGED txSpan

\* ocStmt.Close
StmtClose ==
    /\ cur.kind = "stmt"
    /\ \E perr \in PErrs :
         ObjCall("Stmt.Close", "", perr, Direct("Stmt.Close", perr))
    /\ UNCHANGED txSpan

Commit ==
    /\ cur.kind = "tx"
    /\ \E perr \in PErrs :
         LET ret == IF ~cur.wrapped THEN [Direct("Commit", perr) EXCEPT !.tx = txSpan]
                    ELSE IF rev = "driver.go" THEN drv_ocTx_Commit(cur, txSpan, perr)
                    ELSE [opt_ocTx_Commit(cur, perr) EXCEPT !.tx = txSpan]
         IN  /\ ObjCall("Commit", "", perr, ret)
             /\ txSpan' = ret.tx

Rollback ==
    /\ cur.kind = "tx"
    /\ \E perr \in PErrs :
         LET ret == IF ~cur.wrapped THEN [Direct("Rollback", perr) EXCEPT !.tx = txSpan]
                    ELSE IF rev = "driver.go" THEN drv_ocTx_Rollback(cur, txSpan, perr)
                    ELSE [opt_ocTx_Rollback(cur, perr) EXCEPT !.tx = txSpan]
         IN  /\ ObjCall("Rollback", "", perr, ret)
             /\ txSpan' = ret.tx

Next ==
    \/ Open \/ Close \/ Ping
    \/ Exec \/ ExecContext \/ Query \/ QueryContext
    \/ Prepare \/ PrepareContext \/ Begin \/ BeginTx
    \/ StmtExec \/ StmtQuery \/ StmtExecContext \/ StmtQueryContext
    \/ StmtClose \/ LastInsertId \/ RowsAffected \/ RowsNext \/ RowsClose
    \/ Commit \/ Rollback

Spec == Init /\ [][Next]_vars

-----------------------------------------------------------------------------
(* The status mapper alone: setSpanStatus called on one span with any
   sequence of error values. *)

MaxStatusCalls == 3

InitStatus ==
    /\ rev \in Revs
    /\ options = ZeroOptions
    /\ parentConn = {}
    /\ conn = NoObj
    /\ cur = NoObj
    /\ txSpan = NoSpan
    /\ last = NoCall
    /\ probe = [in |-> <<>>, span |-> NewSpan("probe", "root", {})]
    /\ drivers = {}
    /\ regMu = 0
    /\ callers = <<>>

CallSetSpanStatus ==
    /\ Len(probe.in) < MaxStatusCalls
    /\ \E err \in {Nil} \cup Errs :
         probe' = [in |-> Append(probe.in, err),
                   span |-> setSpanStatus(probe.span, err)]
    /\ UNCHANGED <<rev, regVars, options, parentConn, conn, cur, txSpan, last>>

NextStatus == CallSetSpanStatus

SpecStatus == InitStatus /\ [][NextStatus]_vars

-----------------------------------------------------------------------------
(* Reading a call's record *)

EndCount(span) ==
    Cardinality({i \in DOMAIN span.events : span.events[i].e = "End"})

\* The SetStatus calls made on a span, in order.
Statuses(span) ==
    SelectSeq(span.events, LAMBDA ev : ev.e = "SetStatus")

\* The status a span carries: the last one set.
FinalStatus(span) == Statuses(span)[Len(Statuses(span))]

SpansOf(call) == {call.ret.spans[i] : i \in DOMAIN call.ret.spans}

AccessorOps == {"LastInsertId", "RowsAffected", "Rows.Next", "Rows.Close",
                "Commit", "Rollback"}

\* The calls that go through a handler of the wrapper (a call on an object
\* of the parent that was handed out as it is does not).
WrapperCall(call) == call.op # "" /\ (call.op = "Open" \/ call.on.wrapped)

\* Whether the context a call works with carries a span: the context passed
\* to it or, for an accessor, the one captured in its receiver.
CallHasParentSpan(call) ==
    IF call.op \in AccessorOps THEN HasParent(call.on.ctx)
    ELSE HasParent(call.ctx)

\* The parent was called once, and the caller got the parent's error.
Forwarded(call) == Len(call.ret.calls) = 1 /\ call.ret.err = call.perr

-----------------------------------------------------------------------------
(* Claims *)

\* C1: every statement Prepare or PrepareContext returns implements
\* StmtExecContext iff the parent statement does, and StmtQueryContext iff
\* the parent statement does.
C1_StmtCapsPreserved ==
    (last.op \in {"Prepare", "PrepareContext"} /\ last.ret.obj.kind = "stmt")
        => \A i \in StmtCaps :
              (i \in last.ret.obj.caps) <=> (i \in last.ret.obj.parentCaps)

\* C2: the connection Open returns exposes each optional connection
\* interface iff the parent connection does.
C2_ConnCapsPreserved ==
    (last.op = "Open" /\ last.ret.obj.kind = "conn")
        => \A i \in ConnCaps :
              (i \in last.ret.obj.caps) <=> (i \in last.ret.obj.parentCaps)

\* C3: with all trace options enabled, the rows a statement's Query returns
\* implement RowsColumnTypeScanType iff the parent's rows do.
C3_RowsCapsPreserved ==
    (last.op = "Stmt.Query" /\ options = TraceAll(rev)
         /\ last.ret.obj.kind = "rows")
        => (("RowsColumnTypeScanType" \in last.ret.obj.caps)
               <=> ("RowsColumnTypeScanType" \in last.ret.obj.parentCaps))

\* C4: in the snapshot that has AllowRoot (options.go), a call made with
\* AllowRoot false and no parent span in its context starts no span,
\* whatever the other flags are; this covers the calls on a connection or
\* statement and the accessor calls on what they return.
C4_NoRootNoSpan ==
    (rev = "options.go" /\ last.op # "" /\ ~options["AllowRoot"]
         /\ ~CallHasParentSpan(last))
        => last.ret.spans = <<>>

\* C4 witness: LastInsertId, with its flag on, on the result of an
\* ExecContext that was made without a parent span and AllowRoot off.
C4_Witness ==
    /\ rev = "options.go" /\ ~options["AllowRoot"] /\ options["LastInsertID"]
    /\ options["Ping"] /\ options["Query"]
    /\ last.op = "LastInsertId" /\ ~CallHasParentSpan(last)
    /\ last.ret.calls # <<>> /\ last.ret.spans = <<>>

C5Ops == {"Ping", "ExecContext", "QueryContext", "Prepare", "PrepareContext",
          "BeginTx"}

\* C5 as stated: every intercepted call made with AllowRoot true and no
\* parent span starts exactly one root span, which carries the
\* missing-upstream-context attribute.
C5_RootSpanTagged ==
    (rev = "options.go" /\ last.op \in C5Ops /\ options["AllowRoot"]
         /\ ~HasParent(last.ctx))
        => /\ Len(last.ret.spans) = 1
           /\ last.ret.spans[1].parent = "root"
           /\ attrMissingContext \in last.ret.spans[1].attrs

\* Whether options.go starts a span for this call at all, given AllowRoot
\* and no parent span: Ping needs its flag, ExecContext and QueryContext the
\* parent's interface.
C5Traced(call) ==
    CASE call.op = "Ping"         -> options["Ping"]
      [] call.op = "ExecContext"  -> "ExecerContext" \in call.on.parentCaps
      [] call.op = "QueryContext" -> "QueryerContext" \in call.on.parentCaps
      [] OTHER                    -> TRUE

\* The calls whose span options.go tags as missing upstream context.
C5Tagged(call) ==
    \/ call.op = "Prepare"
    \/ call.op = "PrepareContext" /\ "ConnPrepareContext" \notin call.on.parentCaps
    \/ call.op = "BeginTx" /\ call.ctx = "TODO"

\* C5 amended: with AllowRoot true and no parent span, the call starts
\* exactly one span, a root span, if it is traced at all (Ping: only with
\* the Ping flag on; ExecContext, QueryContext: only if the parent has the
\* interface) and none otherwise; the span carries the
\* missing-upstream-context attribute exactly for Prepare, for
\* PrepareContext on a parent without ConnPrepareContext, and for BeginTx
\* called with context.TODO().
C5_RootSpanAmended ==
    (rev = "options.go" /\ last.op \in C5Ops /\ options["AllowRoot"]
         /\ ~HasParent(last.ctx))
        => IF C5Traced(last)
           THEN /\ Len(last.ret.spans) = 1
                /\ last.ret.spans[1].parent = "root"
                /\ (attrMissingContext \in last.ret.spans[1].attrs)
                       <=> C5Tagged(last)
           ELSE last.ret.spans = <<>>

\* C5 witness: ExecContext with AllowRoot and no parent span started one
\* root span, which does not carry the attribute.
C5_Witness ==
    /\ rev = "options.go" /\ options["AllowRoot"]
    /\ last.op = "ExecContext" /\ ~HasParent(last.ctx)
    /\ Len(last.ret.spans) = 1
    /\ last.ret.spans[1].parent = "root"
    /\ attrMissingContext \notin last.ret.spans[1].attrs

\* The flag that switches the tracing of a call, "" if it has none.
CategoryFlag(op) ==
    CASE op = "Ping"         -> "Ping"
      [] op = "LastInsertId" -> "LastInsertID"
      [] op = "RowsAffected" -> "RowsAffected"
      [] op = "Rows.Next"    -> "RowsNext"
      [] op = "Rows.Close"   -> "RowsClose"
      [] op \in {"Begin", "BeginTx", "Commit", "Rollback"} -> "Transaction"
      [] OTHER               -> ""

\* Ping calls the parent only if it is a Pinger.
C6Forwarded(call) ==
    IF call.op = "Ping" /\ "Pinger" \notin call.on.parentCaps
    THEN call.ret.calls = <<>> /\ call.ret.err = Nil
    ELSE Forwarded(call)

\* C6 as stated: a call whose category flag is off (Transaction for
\* BeginTx, Commit and Rollback) starts no span and is forwarded unchanged.
C6_FlagOffNoSpan ==
    (WrapperCall(last) /\ CategoryFlag(last.op) # ""
         /\ ~options[CategoryFlag(last.op)])
        => last.ret.spans = <<>> /\ C6Forwarded(last)

\* C6 amended: with its flag off, Ping, LastInsertId, RowsAffected,
\* Rows.Next and Rows.Close start no span and are forwarded unchanged,
\* whatever AllowRoot and the context are.  With Transaction off BeginTx
\* starts no long-lived "sql:transaction" span, but the spans of the
\* operations themselves do not depend on the flag: BeginTx starts its
\* "sql:begin_transaction" span (driver.go: always; options.go: when
\* AllowRoot is set or a parent span is present), and Commit and Rollback
\* of a wrapped transaction start theirs; all three are forwarded.
C6_FlagOffAmended ==
    (WrapperCall(last) /\ CategoryFlag(last.op) # ""
         /\ ~options[CategoryFlag(last.op)])
        => /\ C6Forwarded(last)
           /\ CASE last.op \in {"Begin", "BeginTx"} ->
                     /\ \A sp \in SpansOf(last) : sp.name = "sql:begin_transaction"
                     /\ Len(last.ret.spans) =
                           IF rev = "driver.go" \/ options["AllowRoot"]
                                  \/ HasParent(last.ctx)
                           THEN 1 ELSE 0
                [] last.op = "Commit" ->
                     /\ Len(last.ret.spans) = 1
                     /\ last.ret.spans[1].name = "sql:commit"
                [] last.op = "Rollback" ->
                     /\ Len(last.ret.spans) = 1
                     /\ last.ret.spans[1].name = "sql:rollback"
                [] OTHER -> last.ret.spans = <<>>

\* C6 witness: BeginTx with Transaction off started its begin span.
C6_Witness ==
    /\ last.op = "BeginTx" /\ ~options["Transaction"]
    /\ Len(last.ret.spans) = 1
    /\ last.ret.spans[1].name = "sql:begin_transaction"
    /\ Forwarded(last)

\* C7: every span the wrapper starts is ended exactly once.  A span is
\* never ended twice; a span other than the long-lived transaction span is
\* ended when the call that started it returns; the transaction span is
\* ended when BeginTx fails (nobody else holds it) and when Commit or
\* Rollback has returned.
C7_SpansEndedOnce ==
    /\ \A sp \in SpansOf(last) :
          IF sp.name = "sql:transaction" /\ last.ret.obj.kind = "tx"
          THEN EndCount(sp) <= 1
          ELSE EndCount(sp) = 1
    /\ EndCount(txSpan) <= 1
    /\ (last.op \in {"Commit", "Rollback"} /\ txSpan # NoSpan)
           => EndCount(txSpan) = 1

\* C8: Rollback of a transaction begun through the wrapper with transaction
\* tracing enabled closes the long-lived span, with status Aborted when the
\* parent's Rollback returned no error and with the mapping of the error
\* otherwise.
C8_RollbackAborted ==
    (last.op = "Rollback" /\ last.on.wrapped /\ options["Transaction"])
        => /\ txSpan # NoSpan
           /\ EndCount(txSpan) = 1
           /\ Statuses(txSpan) # <<>>
           /\ FinalStatus(txSpan).code =
                 IF last.ret.err = Nil THEN "Aborted"
                 ELSE StatusCode(last.ret.err)

\* C9: the error a wrapper operation returns is the error the parent
\* operation returned (nil for nil, io.EOF for io.EOF), whether or not a
\* span recorded it.
C9_ErrorUnchanged ==
    (WrapperCall(last) /\ last.ret.calls # <<>>)
        => /\ ~last.ret.panic
           /\ last.ret.err = last.perr

\* C9 witness: a traced Rows.Next whose parent returned io.EOF.
C9_Witness ==
    /\ last.op = "Rows.Next" /\ last.on.wrapped /\ last.perr = "EOF"
    /\ last.ret.err = "EOF"
    /\ Len(last.ret.spans) = 1

\* The status the claim assigns to each error value.
C10Expected(err) ==
    CASE err = Nil                -> SetStatus("OK", "")
      [] err = "Canceled"         -> SetStatus("Cancelled", "context canceled")
      [] err = "DeadlineExceeded" ->
             SetStatus("DeadlineExceeded", "context deadline exceeded")
      [] err = "ErrNoRows"        ->
             SetStatus("NotFound", "sql: no rows in result set")
      [] err = "ErrTxDone"        ->
             SetStatus("FailedPrecondition",
                       "sql: transaction has already been committed or rolled back")
      [] err = "ErrConnDone"      ->
             SetStatus("FailedPrecondition", "sql: connection is already closed")
      [] err = "EOF"              -> SetStatus("Unknown", "EOF")
      [] err = "ErrOther"         -> SetStatus("Unknown", "other error")

\* C10: setSpanStatus sets exactly one status per call, and it is the one
\* the table gives for the error: OK with no message for nil, Cancelled,
\* DeadlineExceeded, NotFound, FailedPrecondition for the sentinels, Unknown
\* for any other error, with the error's message for every non-nil error.
C10_StatusMapping ==
    /\ Len(probe.span.events) = Len(probe.in)
    /\ \A i \in DOMAIN probe.in : probe.span.events[i] = C10Expected(probe.in[i])

\* C10 witness: the mapper was called with the connection-done sentinel and
\* then with an error that is no sentinel.
C10_Witness ==
    /\ Len(probe.in) = 2
    /\ probe.in[1] = "ErrConnDone" /\ probe.in[2] = "ErrOther"
    /\ probe.span.events[1].code = "FailedPrecondition"
    /\ probe.span.events[2].code = "Unknown"

\* C11: a traced Rows.Next whose parent returned io.EOF closes its
\* rows_next span with status OK; for any other error (and for nil) the span
\* is closed with the status setSpanStatus maps the error to.
C11_NextEOFIsOK ==
    (last.op = "Rows.Next" /\ last.on.wrapped /\ last.on.options["RowsNext"])
        => /\ Len(last.ret.spans) = 1
           /\ last.ret.spans[1].name = "sql:rows_next"
           /\ last.ret.spans[1].events =
                 IF last.perr = "EOF"
                 THEN <<SetStatus("OK", ""), EndEvent>>
                 ELSE <<SetStatus(StatusCode(last.perr),
                                  IF last.perr = Nil THEN ""
                                  ELSE ErrorMessage(last.perr)),
                        EndEvent>>

\* C11 witness: the parent's Next returned io.EOF and the span is OK.
C11_Witness ==
    /\ last.op = "Rows.Next" /\ last.on.wrapped /\ last.on.options["RowsNext"]
    /\ last.perr = "EOF"
    /\ last.ret.spans[1].events = <<SetStatus("OK", ""), EndEvent>>

\* The optional interface of the parent an operation needs, "" if none.
NeededCap(op) ==
    CASE op = "Exec"              -> "Execer"
      [] op = "ExecContext"       -> "ExecerContext"
      [] op = "Query"             -> "Queryer"
      [] op = "QueryContext"      -> "QueryerContext"
      [] op = "Stmt.ExecContext"  -> "StmtExecContext"
      [] op = "Stmt.QueryContext" -> "StmtQueryContext"
      [] OTHER                    -> ""

\* C12: an optional operation called on a wrapper whose parent lacks the
\* interface (Exec, ExecContext, Query, QueryContext on a connection;
\* ExecContext, QueryContext on a statement from Prepare or PrepareContext)
\* does not panic, returns driver.ErrSkip with a nil result, does not call
\* the parent and starts no span.
C12_SkipNeverPanics ==
    (WrapperCall(last) /\ NeededCap(last.op) # ""
         /\ NeededCap(last.op) \notin last.on.parentCaps)
        => /\ ~last.ret.panic
           /\ last.ret.err = ErrSkip
           /\ last.ret.obj = NoObj
           /\ last.ret.calls = <<>>
           /\ last.ret.spans = <<>>

NonContextOps == {"Exec", "Query", "Prepare", "Stmt.Exec", "Stmt.Query"}

\* A non-context-aware entry point of the options.go snapshot called on a
\* wrapper whose parent can serve it (connection Exec and Query need
\* Execer and Queryer, else they return driver.ErrSkip).
C13Case ==
    /\ rev = "options.go" /\ last.op \in NonContextOps /\ last.on.wrapped
    /\ NeededCap(last.op) # "" => NeededCap(last.op) \in last.on.parentCaps

\* C13 as stated: with AllowRoot false such a call runs the parent's
\* operation without a span and returns what the parent returned; with
\* AllowRoot true it starts exactly one root span, which carries the
\* deprecated-driver attribute.
C13_NonContextDeprecated ==
    C13Case =>
        /\ Forwarded(last)
        /\ IF ~last.on.options["AllowRoot"]
           THEN last.ret.spans = <<>>
           ELSE /\ Len(last.ret.spans) = 1
                /\ last.ret.spans[1].parent = "root"
                /\ attrDeprecated \in last.ret.spans[1].attrs

\* C13 amended: with AllowRoot false such a call runs the parent's
\* operation without a span; Exec, Query and the statement's Exec and Query
\* return the parent's result or rows as they are, Prepare returns the
\* parent's statement wrapped.  With AllowRoot true exactly one root span is
\* started; it carries the deprecated-driver attribute for Exec, Query and
\* the statement's Exec and Query, while the span of Prepare carries the
\* missing-upstream-context attribute and not the deprecated-driver one.
C13_NonContextAmended ==
    C13Case =>
        /\ Forwarded(last)
        /\ (last.perr = Nil) <=> (last.ret.obj # NoObj)
        /\ IF ~last.on.options["AllowRoot"]
           THEN /\ last.ret.spans = <<>>
                /\ last.ret.obj # NoObj
                       => (last.ret.obj.wrapped <=> last.op = "Prepare")
           ELSE /\ Len(last.ret.spans) = 1
                /\ last.ret.spans[1].parent = "root"
                /\ last.ret.obj # NoObj => last.ret.obj.wrapped
                /\ IF last.op = "Prepare"
                   THEN /\ attrMissingContext \in last.ret.spans[1].attrs
                        /\ attrDeprecated \notin last.ret.spans[1].attrs
                   ELSE attrDeprecated \in last.ret.spans[1].attrs

\* C13 witness: Prepare with AllowRoot on started a root span tagged as
\* missing upstream context.
C13_Witness ==
    /\ C13Case /\ last.op = "Prepare" /\ last.on.options["AllowRoot"]
    /\ Len(last.ret.spans) = 1
    /\ attrMissingContext \in last.ret.spans[1].attrs
    /\ attrDeprecated \notin last.ret.spans[1].attrs

-----------------------------------------------------------------------------
(* Wrap alone: the caller passes a list of options, Wrap computes the
   effective options.  probe.in is the list passed, options the result. *)

MaxOptions == 3

\* The options a caller passes: each setter with each value, and WithOptions
\* with a whole TraceOptions value.
OptionArgs(r) ==
    {WithFlag(f, b) : f \in FlagsOf(r), b \in BOOLEAN}
        \cup {WithOptions(TraceAll(r)),
              WithOptions([ZeroOptions EXCEPT !["QueryParams"] = TRUE])}

InitWrap ==
    /\ rev \in Revs
    /\ options = Wrap(<<>>)
    /\ parentConn = {}
    /\ conn = NoObj
    /\ cur = NoObj
    /\ txSpan = NoSpan
    /\ last = NoCall
    /\ probe = NoProbe
    /\ drivers = {}
    /\ regMu = 0
    /\ callers = <<>>

\* Wrap(d, options...) called with one more option than before.
CallWrap ==
    /\ Len(probe.in) < MaxOptions
    /\ \E option \in OptionArgs(rev) :
         /\ probe' = [probe EXCEPT !.in = Append(probe.in, option)]
         /\ options' = Wrap(probe'.in)
    /\ UNCHANGED <<rev, regVars, parentConn, conn, cur, txSpan, last>>

NextWrap == CallWrap

SpecWrap == InitWrap /\ [][NextWrap]_vars

\* The options of the list that set flag f: its setter, or WithOptions.
Setters(opts, f) ==
    {i \in DOMAIN opts : opts[i].kind = "all" \/ opts[i].flag = f}

\* The value the last option that set f gave it; FALSE if none set it.
LastSet(opts, f) ==
    IF Setters(opts, f) = {} THEN FALSE
    ELSE LET i == CHOOSE k \in Setters(opts, f) :
                      \A j \in Setters(opts, f) : j <= k
         IN  IF opts[i].kind = "all" THEN opts[i].opts[f] ELSE opts[i].val

\* C14: the effective options of Wrap satisfy "QueryParams implies Query":
\* QueryParams is on iff the options applied in order leave both QueryParams
\* and Query on, and every other flag has the value the last option that
\* set it gave it (off if none did), whatever the order of the options.
C14_QueryParamsImpliesQuery ==
    /\ options["QueryParams"] => options["Query"]
    /\ options["QueryParams"] <=>
           (LastSet(probe.in, "QueryParams") /\ LastSet(probe.in, "Query"))
    /\ \A f \in Flags \ {"QueryParams"} : options[f] = LastSet(probe.in, f)

\* C14 witness: WithQuery(false) came before WithQueryParams(true), and
\* QueryParams was forced off.
C14_Witness ==
    /\ Len(probe.in) = 2
    /\ probe.in[1] = WithFlag("Query", FALSE)
    /\ probe.in[2] = WithFlag("QueryParams", TRUE)
    /\ ~options["QueryParams"] /\ ~options["Query"]

-----------------------------------------------------------------------------

QueryOps == {"Exec", "ExecContext", "Query", "QueryContext", "Prepare",
             "PrepareContext", "Stmt.Exec", "Stmt.ExecContext", "Stmt.Query",
             "Stmt.QueryContext"}

\* C15: every span started for Exec, Query or Prepare (on a connection or a
\* statement, with or without context) carries the query text iff the Query
\* flag is on, and carries parameter values only if Query and QueryParams
\* are both on.
C15_QueryAttrsFollowFlags ==
    (last.op \in QueryOps /\ last.on.wrapped)
        => \A sp \in SpansOf(last) :
              /\ (attrQuery \in sp.attrs) <=> last.on.options["Query"]
              /\ (attrParams \in sp.attrs)
                     => (last.on.options["Query"]
                            /\ last.on.options["QueryParams"])

-----------------------------------------------------------------------------
(* The attribute encoder alone (options.go): paramsAttr, namedParamsAttr and
   argToAttr.  A byte sequence or a string is a sequence of bytes; an
   attribute is its key, its kind and its value. *)

MaxAttrLen == 256

Digit(d) == <<"0", "1", "2", "3", "4", "5", "6", "7", "8", "9">>[d + 1]

\* strconv.Itoa for a number that is not negative
RECURSIVE Itoa(_)
Itoa(n) == IF n < 10 THEN Digit(n) ELSE Itoa(n \div 10) \o Digit(n % 10)

\* The bytes of the decimal digits of n
RECURSIVE DigitBytes(_)
DigitBytes(n) ==
    IF n < 10 THEN <<48 + n>> ELSE Append(DigitBytes(n \div 10), 48 + (n % 10))

\* fmt.Sprintf("%f", v) for a float64 that holds a whole number v >= 0
Sprintf_f(v) == DigitBytes(v) \o <<46, 48, 48, 48, 48, 48, 48>>

StringAttribute(key, value) == [key |-> key, kind |-> "string", value |-> value]

Int64Attribute(key, value) == [key |-> key, kind |-> "int64", value |-> value]

BoolAttribute(key, value) == [key |-> key, kind |-> "bool", value |-> value]

\* Variant of argToAttr that keeps a byte sequence whole.
argToAttr_BytesWhole(key, val) ==
    CASE val.t = "nil"     -> StringAttribute(key, <<>>)
      [] val.t = "int64"   -> Int64Attribute(key, val.v)
      [] val.t = "float64" -> StringAttribute(key, Sprintf_f(val.v))
      [] val.t = "bool"    -> BoolAttribute(key, val.v)
      [] val.t = "bytes"   -> StringAttribute(key, val.v)
      [] OTHER             ->
             StringAttribute(key,
                 IF Len(val.v) > MaxAttrLen THEN SubSeq(val.v, 1, MaxAttrLen)
                 ELSE val.v)

\* argToAttr.  val.t is the dynamic type of the value; for a type of the
\* default case val.v is its fmt "%v" form.
argToAttr(key, val) ==
    CASE val.t = "nil"     -> StringAttribute(key, <<>>)
      [] val.t = "int64"   -> Int64Attribute(key, val.v)
      [] val.t = "float64" -> StringAttribute(key, Sprintf_f(val.v))
      [] val.t = "bool"    -> BoolAttribute(key, val.v)
      [] val.t = "bytes"   ->
             StringAttribute(key,
                 IF Len(val.v) > MaxAttrLen THEN SubSeq(val.v, 1, MaxAttrLen)
                 ELSE val.v)
      [] OTHER             ->
             StringAttribute(key,
                 IF Len(val.v) > MaxAttrLen THEN SubSeq(val.v, 1, MaxAttrLen)
                 ELSE val.v)

\* paramsAttr: args is a list of driver.Value, i counts from 0.
paramsAttr(args) ==
    [k \in DOMAIN args |-> argToAttr("sql.arg" \o Itoa(k - 1), args[k])]

\* namedParamsAttr: args is a list of driver.NamedValue.
namedParamsAttr(args) ==
    [k \in DOMAIN args |->
        argToAttr(IF args[k].Name # "" THEN args[k].Name
                  ELSE "sql.arg." \o Itoa(args[k].Ordinal),
                  args[k].Value)]

MaxArgs == 2

\* n bytes that differ from place to place
Bytes(n) == [i \in 1..n |-> (i * 7) % 256]

ArgLens == {0, 255, 256, 257, 300}

\* The parameter values a caller passes.
ArgValues ==
    {[t |-> "nil", v |-> 0]}
        \cup {[t |-> "int64", v |-> n] : n \in {0, 1000}}
        \cup {[t |-> "float64", v |-> 12]}
        \cup {[t |-> "bool", v |-> b] : b \in BOOLEAN}
        \cup {[t |-> "bytes", v |-> Bytes(n)] : n \in ArgLens}
        \cup {[t |-> "string", v |-> Bytes(n)] : n \in {3, 256, 257}}

ArgNames == {"", "id"}

InitArgs ==
    /\ rev = "options.go"
    /\ options = ZeroOptions
    /\ parentConn = {}
    /\ conn = NoObj
    /\ cur = NoObj
    /\ txSpan = NoSpan
    /\ last = NoCall
    /\ probe = [in |-> <<>>, span |-> NoSpan, fn |-> "", attrs |-> <<>>]
    /\ drivers = {}
    /\ regMu = 0
    /\ callers = <<>>

\* The list of arguments with one more argument; database/sql numbers the
\* arguments from 1.
MoreArgs(name, val) ==
    Append(probe.in,
           [Name |-> name, Ordinal |-> Len(probe.in) + 1, Value |-> val])

\* paramsAttr(args) on the values of the list
CallParamsAttr ==
    /\ Len(probe.in) < MaxArgs
    /\ \E name \in ArgNames, val \in ArgValues :
         probe' = [probe EXCEPT
                     !.in = MoreArgs(name, val),
                     !.fn = "paramsAttr",
                     !.attrs = paramsAttr([k \in DOMAIN MoreArgs(name, val) |->
                                              MoreArgs(name, val)[k].Value])]
    /\ UNCHANGED <<rev, regVars, options, parentConn, conn, cur, txSpan, last>>

\* namedParamsAttr(args) on the list
CallNamedParamsAttr ==
    /\ Len(probe.in) < MaxArgs
    /\ \E name \in ArgNames, val \in ArgValues :
         probe' = [probe EXCEPT
                     !.in = MoreArgs(name, val),
                     !.fn = "namedParamsAttr",
                     !.attrs = namedParamsAttr(MoreArgs(name, val))]
    /\ UNCHANGED <<rev, regVars, options, parentConn, conn, cur, txSpan, last>>

NextArgs == CallParamsAttr \/ CallNamedParamsAttr

SpecArgs == InitArgs /\ [][NextArgs]_vars

\* The first n places of a sequence, all of it if it has no more.
FirstN(s, n) == [i \in 1..(IF Len(s) < n THEN Len(s) ELSE n) |-> s[i]]

\* The key the claim gives the k-th argument (k counts from 1).
C16Key(fn, arg, k) ==
    IF fn = "namedParamsAttr"
    THEN IF arg.Name # "" THEN arg.Name
         ELSE <<"sql.arg.1", "sql.arg.2", "sql.arg.3", "sql.arg.4">>[arg.Ordinal]
    ELSE <<"sql.arg0", "sql.arg1", "sql.arg2", "sql.arg3">>[k]

\* C16: one attribute per parameter.  A byte sequence longer than 256 bytes
\* gives a string attribute holding exactly its first 256 bytes, one of 256
\* bytes or fewer is kept whole; a value of another type that is neither a
\* number nor a boolean gives its string form cut to at most 256 bytes (the
\* empty string for nil).  The key of a named parameter is its name, that of
\* an unnamed one is built from its ordinal (paramsAttr: from its index).
C16_ArgTruncated ==
    /\ Len(probe.attrs) = Len(probe.in)
    /\ \A k \in DOMAIN probe.in :
          LET val == probe.in[k].Value
              a   == probe.attrs[k]
          IN  /\ a.key = C16Key(probe.fn, probe.in[k], k)
              /\ val.t = "bytes" =>
                    /\ a.kind = "string"
                    /\ a.value = FirstN(val.v, 256)
                    /\ Len(val.v) > 256 => Len(a.value) = 256
                    /\ Len(val.v) <= 256 => a.value = val.v
              /\ val.t = "string" =>
                    /\ a.kind = "string"
                    /\ a.value = FirstN(val.v, 256)
                    /\ Len(a.value) <= 256
              /\ val.t = "nil" => a.kind = "string" /\ a.value = <<>>

\* C16 witness: an unnamed byte sequence of 257 bytes, second in a list
\* given to namedParamsAttr, was cut to 256 bytes under the key of its
\* ordinal.
C16_Witness ==
    /\ probe.fn = "namedParamsAttr" /\ Len(probe.in) = 2
    /\ probe.in[2].Name = "" /\ probe.in[2].Value.t = "bytes"
    /\ Len(probe.in[2].Value.v) = 257
    /\ Len(probe.attrs[2].value) = 256
    /\ probe.attrs[2].key = "sql.arg.2"

-----------------------------------------------------------------------------
(* Register (options.go).  drivers is the registry of database/sql: one
   entry per sql.Register call, with its name, the caller that made it (0:
   registered by someone else before) and the effective options of the
   wrapper.  Each caller calls Register once; a step of a caller is one of:
   the opening and closing of the base driver, regMu.Lock, one scan of
   sql.Drivers() for the name of slot i, sql.Register with the return that
   follows it, and the return after the last slot. *)

NumSlots == 100

NumCallers == 2

Callers == 1..NumCallers

\* The driver names a caller passes: one that is registered, one that is not.
BaseDriver == "mysql"

DriverNames == {BaseDriver, "nosuch"}

\* The option lists a caller passes.
RegisterOptions == {<<>>, <<WithOptions(TraceAll("options.go"))>>}

\* Variant of the derived name that numbers the slots from 1.
RegName_FromOne(driverName, i) == (driverName \o "-ocsql-") \o Itoa(i + 1)

\* strconv.FormatInt(i, 10) appended to driverName + "-ocsql-"
RegName(driverName, i) == (driverName \o "-ocsql-") \o Itoa(i)

\* sql.Drivers()
sql_Drivers == {d.name : d \in drivers}

Entry(name, by, opts) == [name |-> name, by |-> by, options |-> opts]

\* The registries Register may find: the base driver and, of its derived
\* names, none, all but the last, all, or the first and the third
\* (sql.Register is open to every package).
TakenSlots == {{}, 0..(NumSlots - 2), 0..(NumSlots - 1), {0, 2}}

NewCaller ==
    [pc |-> "start", driverName |-> "", options |-> <<>>, i |-> 0,
     scans |-> 0, regName |-> "", err |-> Nil]

InitRegister ==
    /\ rev = "options.go"
    /\ options = ZeroOptions
    /\ parentConn = {}
    /\ conn = NoObj
    /\ cur = NoObj
    /\ txSpan = NoSpan
    /\ last = NoCall
    /\ probe = NoProbe
    /\ \E taken \in TakenSlots :
         drivers = {Entry(BaseDriver, 0, ZeroOptions)}
                      \cup {Entry(RegName(BaseDriver, i), 0, ZeroOptions) :
                               i \in taken}
    /\ regMu = 0
    /\ callers = [p \in Callers |-> NewCaller]

RegisterStep(p, c) ==
    /\ callers' = [callers EXCEPT ![p] = c]
    /\ UNCHANGED <<rev, options, parentConn, conn, cur, txSpan, last, probe>>

\* Variant of the mutex that never makes a caller wait.
MutexFree_Always(mu) == TRUE

\* sync.Mutex: Lock goes through when nobody holds the mutex.
MutexFree(mu) == mu = 0

\* Register, up to regMu.Lock: sql.Open(driverName, "") fails for a name
\* that is not registered; opening the connector or db.Close() may fail
\* with an error of the base driver (perr).
RegisterOpen(p) ==
    /\ callers[p].pc = "start"
    /\ \E driverName \in DriverNames, opts \in RegisterOptions,
          perr \in {Nil, "ErrOther"} :
         LET c == [callers[p] EXCEPT !.driverName = driverName,
                                     !.options = opts]
         IN  IF driverName \notin sql_Drivers
             THEN RegisterStep(p, [c EXCEPT !.pc = "done",
                                            !.err = "unknown driver"])
             ELSE IF perr # Nil
             THEN RegisterStep(p, [c EXCEPT !.pc = "done", !.err = perr])
             ELSE RegisterStep(p, [c EXCEPT !.pc = "lock"])
    /\ UNCHANGED <<drivers, regMu>>

\* regMu.Lock()
RegisterLock(p) ==
    /\ callers[p].pc = "lock"
    /\ MutexFree(regMu)
    /\ regMu' = p
    /\ RegisterStep(p, [callers[p] EXCEPT !.pc = "loop", !.i = 0])
    /\ UNCHANGED drivers

\* One pass of the loop up to "if !found": the name of slot i is looked up
\* in sql.Drivers().
RegisterScan(p) ==
    /\ callers[p].pc = "loop"
    /\ callers[p].i < NumSlots
    /\ LET c       == callers[p]
           regName == RegName(c.driverName, c.i)
           found   == regName \in sql_Drivers
       IN  RegisterStep(p,
              IF found
              THEN [c EXCEPT !.i = c.i + 1, !.scans = c.scans + 1]
              ELSE [c EXCEPT !.pc = "register", !.regName = regName,
                             !.scans = c.scans + 1])
    /\ UNCHANGED <<drivers, regMu>>

\* sql.Register(regName, Wrap(dri, options...)), which panics if the name
\* is registered already; then return regName, nil and the deferred
\* regMu.Unlock().
RegisterClaim(p) ==
    /\ callers[p].pc = "register"
    /\ LET c == callers[p]
       IN  IF c.regName \in sql_Drivers
           THEN /\ RegisterStep(p, [c EXCEPT !.pc = "panic"])
                /\ UNCHANGED drivers
           ELSE /\ drivers' = drivers
                                \cup {Entry(c.regName, p, Wrap(c.options))}
                /\ RegisterStep(p, [c EXCEPT !.pc = "done"])
    /\ regMu' = IF regMu = p THEN 0 ELSE regMu

\* The loop has run through all slots: the error return and the deferred
\* regMu.Unlock().
RegisterFull(p) ==
    /\ callers[p].pc = "loop"
    /\ callers[p].i >= NumSlots
    /\ RegisterStep(p, [callers[p] EXCEPT
                          !.pc = "done",
                          !.err = "unable to register driver, all slots have been taken"])
    /\ regMu' = IF regMu = p THEN 0 ELSE regMu
    /\ UNCHANGED drivers

NextRegister ==
    \E p \in Callers :
        \/ RegisterOpen(p)
        \/ RegisterLock(p)
        \/ RegisterScan(p)
        \/ RegisterClaim(p)
        \/ RegisterFull(p)

SpecRegister == InitRegister /\ [][NextRegister]_vars

\* The calls of Register that have returned a name.
Succeeded(p) == callers[p].pc = "done" /\ callers[p].err = Nil

Failed(p) == callers[p].pc = "done" /\ callers[p].err # Nil

\* C17: whatever the interleaving of the Register calls for one base
\* driver, with the same or different options, no call panics, the calls
\* that succeed return names that differ from one another, and each such
\* name is registered exactly once, by that call, with the wrapper built
\* from that call's options.
C17_RegisterDistinct ==
    /\ \A p \in Callers : callers[p].pc # "panic"
    /\ \A p, q \in Callers :
          (p # q /\ Succeeded(p) /\ Succeeded(q))
              => callers[p].regName # callers[q].regName
    /\ \A p \in Callers :
          Succeeded(p)
              => {d \in drivers : d.name = callers[p].regName}
                    = {Entry(callers[p].regName, p, Wrap(callers[p].options))}

\* C17 witness: two calls with different options have both succeeded.
C17_Witness ==
    /\ Succeeded(1) /\ Succeeded(2)
    /\ callers[1].driverName = callers[2].driverName
    /\ callers[1].options # callers[2].options
    /\ callers[1].regName = "mysql-ocsql-1"
    /\ callers[2].regName = "mysql-ocsql-0"

\* The derived name of slot k of the base driver, for k in 0..99.
C18Slot(k) ==
    "mysql-ocsql-" \o (IF k < 10 THEN Digit(k)
                       ELSE Digit(k \div 10) \o Digit(k % 10))

\* All 100 derived names of the base driver are registered.
C18AllTaken == \A k \in 0..99 : C18Slot(k) \in sql_Drivers

\* What C18 says of a call that succeeded, and of the number of slots
\* looked at: the name returned is that of the lowest free slot, it is
\* registered, and no call looks at more than 100 slots.
C18Success ==
    /\ \A p \in Callers : callers[p].scans <= 100
    /\ \A p \in Callers :
          Succeeded(p) =>
              /\ callers[p].driverName = BaseDriver
              /\ \E k \in 0..99 :
                    /\ callers[p].regName = C18Slot(k)
                    /\ \A j \in 0..99 : j < k => C18Slot(j) \in sql_Drivers
                    /\ \E d \in drivers : d.name = C18Slot(k) /\ d.by = p

\* C18 as stated: a call fails, registering nothing, when the base driver
\* name is unknown or all 100 derived names are registered, and only then.
C18_RegisterFailsOnlyWhen ==
    /\ C18Success
    /\ \A p \in Callers :
          Failed(p) =>
              /\ \A d \in drivers : d.by # p
              /\ \/ callers[p].driverName \notin sql_Drivers
                 \/ C18AllTaken /\ callers[p].scans = 100

\* C18 amended: a call fails, registering nothing, when the base driver
\* name is unknown, when opening the base driver with an empty data source
\* name or closing it again fails (the error of the base driver is
\* returned), or when all 100 derived names are registered (after exactly
\* 100 slots looked at); otherwise it registers and returns the derived
\* name of the lowest free slot; no call looks at more than 100 slots.
C18_RegisterAmended ==
    /\ C18Success
    /\ \A p \in Callers :
          Failed(p) =>
              /\ \A d \in drivers : d.by # p
              /\ \/ callers[p].driverName \notin sql_Drivers
                 \/ callers[p].err = "ErrOther" /\ callers[p].scans = 0
                 \/ C18AllTaken /\ callers[p].scans = 100
    /\ \A p \in Callers :
          (callers[p].pc = "done" /\ callers[p].driverName \notin sql_Drivers)
              => Failed(p)

\* C18 witness: one call took the last free slot and the other, finding
\* all 100 names registered, failed after 100 slots.
C18_Witness ==
    /\ Succeeded(1) /\ callers[1].regName = "mysql-ocsql-99"
    /\ Failed(2) /\ callers[2].scans = 100
    /\ callers[2].driverName = BaseDriver
    /\ \A d \in drivers : d.by # 2

-----------------------------------------------------------------------------

\* C19: BeginTx with the Transaction flag on starts the long-lived
\* "sql:transaction" span first, as a child of the caller's span or, with
\* context.TODO(), as a root span tagged as missing upstream context; then
\* it starts the "sql:begin_transaction" span as a child of that span and
\* ends it before it returns; when BeginTx has succeeded the transaction
\* span is still open, and it stays open until Commit or Rollback.
C19_TxSpanFirst ==
    /\ (last.op = "BeginTx" /\ last.on.wrapped
            /\ last.on.options["Transaction"])
          => /\ Len(last.ret.spans) = 2
             /\ last.ret.spans[1].name = "sql:transaction"
             /\ last.ret.spans[1].parent =
                   IF HasParent(last.ctx) THEN "inbound" ELSE "root"
             /\ last.ctx = "TODO"
                   => attrMissingContext \in last.ret.spans[1].attrs
             /\ last.ret.spans[2].name = "sql:begin_transaction"
             /\ last.ret.spans[2].parent = "tx"
             /\ EndCount(last.ret.spans[2]) = 1
             /\ last.perr = Nil
                   => /\ txSpan = last.ret.spans[1]
                      /\ EndCount(txSpan) = 0
    /\ (txSpan # NoSpan /\ last.op \notin {"Commit", "Rollback"})
          => EndCount(txSpan) = 0

\* What setSpanStatus records for an error.
MapperStatus(err) ==
    SetStatus(StatusCode(err), IF err = Nil THEN "" ELSE ErrorMessage(err))

\* The spans of the operations themselves: all but the long-lived
\* transaction span.
OperationSpans(call) == {sp \in SpansOf(call) : sp.name # "sql:transaction"}

\* C20 as stated: the span of every traced operation, Ping included,
\* gets one status, the mapper's value of the error the call returns, and is
\* ended after that.
C20_StatusIsMapper ==
    (WrapperCall(last) /\ ~last.ret.panic)
        => \A sp \in OperationSpans(last) :
              sp.events = <<MapperStatus(last.ret.err), EndEvent>>

\* The status options.go and driver.go give the span of a call that
\* returns err.
C20Status(op, err) ==
    CASE op = "Ping" /\ err # Nil -> SetStatus("Unavailable", ErrorMessage(err))
      [] op = "Rows.Next" /\ err = "EOF" -> SetStatus("OK", "")
      [] OTHER -> MapperStatus(err)

\* C20 amended: the span of every traced operation gets exactly one status,
\* set before the span is ended and computed from the error the parent
\* returned, which is the error the call returns.  It is the mapper's value
\* of that error except in two cases: a Ping that fails gets Unavailable
\* with the error's message whatever the error is, and a Rows.Next that
\* returns io.EOF gets OK.
C20_StatusAmended ==
    (WrapperCall(last) /\ ~last.ret.panic)
        => \A sp \in OperationSpans(last) :
              sp.events = <<C20Status(last.op, last.ret.err), EndEvent>>

\* C20 witness: a traced Ping that failed with context.Canceled has the
\* status Unavailable, not Cancelled.
C20_Witness ==
    /\ last.op = "Ping" /\ last.ret.err = "Canceled"
    /\ Len(last.ret.spans) = 1
    /\ last.ret.spans[1].events =
           <<SetStatus("Unavailable", "context canceled"), EndEvent>>

-----------------------------------------------------------------------------

\* The decorators in sight: the connection, the object the caller holds and
\* the object the latest call returned.
Decorators == {o \in {conn, cur, last.ret.obj} : o.kind # "none" /\ o.wrapped}

\* C21: every decorator reached from one Wrap call (the connection from
\* Open, a statement from Prepare or PrepareContext, a result from Exec,
\* rows from Query, a transaction from Begin or BeginTx) holds the effective
\* options Wrap computed.
C21_OptionsEverywhere ==
    \A o \in Decorators : o.options = options

ResultOps == {"LastInsertId", "RowsAffected", "Rows.Next", "Rows.Close"}

ProducerOps == {"Exec", "ExecContext", "Query", "QueryContext", "Stmt.Exec",
                "Stmt.ExecContext", "Stmt.Query", "Stmt.QueryContext"}

\* A wrapped result or rows just returned by the operation that made it.
C22Produced ==
    /\ last.op \in ProducerOps /\ last.on.wrapped
    /\ last.ret.obj.kind \in {"result", "rows"} /\ last.ret.obj.wrapped

\* An accessor call on a wrapped result or rows.
C22Accessed == last.op \in ResultOps /\ last.on.wrapped

\* C22 as stated: the context a wrapped result or rows captures carries the
\* span of the operation that produced it, and every span LastInsertId,
\* RowsAffected, Rows.Next or Rows.Close starts is a child of that span,
\* whether that span was a root or a child of the caller's span.
C22_AccessorsUnderOperation ==
    /\ C22Produced => last.ret.obj.ctx = "Op"
    /\ C22Accessed => \A sp \in SpansOf(last) : sp.parent = "op"

\* C22 amended: when the operation's span was started as a root (no span in
\* the caller's context, or a call without context), the captured context
\* carries the operation's span and the accessors' spans are its children.
\* When the caller's context carried a span, the options.go snapshot keeps
\* the caller's context in the result or rows, so the accessors' spans are
\* children of the caller's span, beside the operation's span; the
\* driver.go snapshot captures the operation's span in that case too.  An
\* accessor's span is never a root.
C22_AccessorsAmended ==
    /\ C22Produced =>
          /\ Len(last.ret.spans) = 1
          /\ last.ret.obj.ctx =
                IF rev = "options.go" /\ HasParent(last.ctx)
                THEN last.ctx ELSE "Op"
          /\ last.ret.obj.ctx = last.ctx
                => last.ret.spans[1].parent = "inbound"
    /\ C22Accessed =>
          /\ last.on.ctx \in {"Op", "Inbound"}
          /\ last.on.ctx = "Inbound" => rev = "options.go"
          /\ \A sp \in SpansOf(last) :
                sp.parent = (IF last.on.ctx = "Op" THEN "op" ELSE "inbound")

\* C22 witness: in options.go, LastInsertId on a result made under the
\* caller's span started a child of the caller's span.
C22_Witness ==
    /\ rev = "options.go" /\ last.op = "LastInsertId" /\ last.on.wrapped
    /\ last.on.ctx = "Inbound"
    /\ Len(last.ret.spans) = 1
    /\ last.ret.spans[1].parent = "inbound"

-----------------------------------------------------------------------------

\* The interface of the parent a wrapper call cannot do without, "" if
\* there is none: the optional operations, and Ping.
C23Needs(op) == IF op = "Ping" THEN "Pinger" ELSE NeededCap(op)

\* The operation of the parent that serves a wrapper call.
C23ParentOp(call) ==
    CASE call.op = "PrepareContext" ->
             IF "ConnPrepareContext" \in call.on.parentCaps
             THEN "PrepareContext" ELSE "Prepare"
      [] call.op \in {"BeginTx", "Begin"} ->
             IF "ConnBeginTx" \in call.on.parentCaps THEN "BeginTx" ELSE "Begin"
      [] OTHER -> call.op

\* The query the parent must see: the caller's for a call on a connection,
\* the statement's for a call on a statement, none otherwise.
C23Query(call) ==
    IF call.on.kind = "stmt" /\ call.op # "Stmt.Close" THEN call.on.query
    ELSE call.query

\* The kind of object a call returns when the parent succeeds.
C23Returns(op) ==
    CASE op = "Open" -> "conn"
      [] op \in {"Exec", "ExecContext", "Stmt.Exec", "Stmt.ExecContext"} -> "result"
      [] op \in {"Query", "QueryContext", "Stmt.Query", "Stmt.QueryContext"} -> "rows"
      [] op \in {"Prepare", "PrepareContext"} -> "stmt"
      [] op \in {"Begin", "BeginTx"} -> "tx"
      [] OTHER -> "none"

\* C23: a wrapper call the parent can serve, whatever the options and
\* whether or not a span is started, calls the parent's operation exactly
\* once, also when it returns an error, with the query of the call; it
\* returns the parent's error, and the parent's value or a decorator around
\* it (nothing after an error).  PrepareContext and BeginTx call the
\* parent's Prepare and Begin, once, when the parent lacks the
\* context-aware variant.
C23_ParentCalledOnce ==
    (WrapperCall(last)
        /\ (C23Needs(last.op) # "" => C23Needs(last.op) \in last.on.parentCaps))
        => /\ ~last.ret.panic
           /\ Len(last.ret.calls) = 1
           /\ last.ret.calls[1].op = C23ParentOp(last)
           /\ last.ret.calls[1].query = C23Query(last)
           /\ last.ret.err = last.perr
           /\ last.ret.obj.kind =
                 IF last.perr = Nil THEN C23Returns(last.op) ELSE "none"

\* C23 witness: PrepareContext on a parent without ConnPrepareContext
\* called the parent's Prepare once, and returned its error.
C23_Witness ==
    /\ last.op = "PrepareContext"
    /\ "ConnPrepareContext" \notin last.on.parentCaps
    /\ last.ret.calls = <<Call("Prepare", "SELECT 1", "")>>
    /\ last.ret.err = "Canceled" /\ last.ret.obj = NoObj

====
